---- MODULE Spec2Model ----
(***************************************************************************)
(* Model of the G-code generator GladiusLib_ToGcode.py: the GcodeWriter,   *)
(* the loop extractor (process_polygon / process_contour), the travel      *)
(* order optimizer (reduce_travel_moves), the straight line infill and     *)
(* the per-layer loop of main().                                           *)
(*                                                                         *)
(* Units.  Lengths are integers in 1/100 mm, areas in 1/10000 mm^2,         *)
(* fractions (overlap, density, multiplier) in percent.  The extruder      *)
(* position is kept in 1e-7 mm and written with 5 decimals (1e-5 mm), the  *)
(* extrusion per extruded mm is kept in 1e-6.  The range of the layer loop *)
(* is in 1/1000 mm, as in the source (int(z * 1000)).                      *)
(***************************************************************************)
EXTENDS Integers, Sequences, FiniteSets, TLC

VARIABLES
    slicing_params,     \* SlicingParameters of the job
    kernel,             \* the loaded model behind gladius.GenerateContour
    list_of_pause_zheights,
    pc,                 \* position of main()
    out,                \* the lines written to the output file, in order
    extruder_position,  \* GcodeWriter.extruder_position
    i,                  \* index of the layer loop
    previous_z,
    z_height_mm,
    layer_height,
    offset,
    j,                  \* index of the shell loop (offsetRange)
    polygons,           \* loops collected by the shell loop
    pause_triggered,
    calls               \* log of the calls of gladius.GenerateContour

vars == << slicing_params, kernel, list_of_pause_zheights, pc, out,
           extruder_position, i, previous_z, z_height_mm, layer_height,
           offset, j, polygons, pause_triggered, calls >>

----------------------------------------------------------------------------
(* Bounds of the model *)

MaxPerimeters == 2
MaxBrim == 2
MaxZ == 4

(* Fixed-point constants *)

PiMilli == 3142

----------------------------------------------------------------------------
(* Arithmetic helpers *)

CeilDiv(a, b) == IF a <= 0 THEN 0 - ((0 - a) \div b) ELSE (a + b - 1) \div b

RECURSIVE SqrtSearch(_, _, _)
SqrtSearch(x, lo, hi) ==
    IF lo >= hi THEN lo
    ELSE LET mid == (lo + hi + 1) \div 2
         IN  IF mid * mid <= x THEN SqrtSearch(x, mid, hi)
             ELSE SqrtSearch(x, lo, mid - 1)

Sqrt(x) == SqrtSearch(x, 0, 40000)

Distance(p, q) ==
    Sqrt((q[1] - p[1]) * (q[1] - p[1]) + (q[2] - p[2]) * (q[2] - p[2]))

\* f"{x:.5f}" of a position kept in 1e-7 mm: the nearest multiple of 1e-5 mm
Fmt5(x) == IF x >= 0 THEN (x + 50) \div 100 ELSE 0 - ((50 - x) \div 100)

----------------------------------------------------------------------------
(* SlicingParameters *)

slicingParametersTPU ==
    [ first_layer_height      |-> 30,
      layer_height            |-> 20,
      first_layer_temperature |-> 250,
      num_perimeters          |-> 2,
      volume_rate_mm3_per_s   |-> 5,
      extrusion_width         |-> 60,
      nozzle_diameter         |-> 60,
      nozzle_temperature      |-> 240,
      travel_speed            |-> 250,
      perimeter_overlap       |-> 15,
      fan_speed               |-> 255,
      acceleration            |-> 5000,
      brim_width              |-> 0,
      bed_temperature         |-> 0,
      extrusion_multiplier    |-> 120,
      infill_density          |-> 20,
      infill_angle            |-> 45,
      infill_overlap          |-> 15,
      infill_layer_freq       |-> 1 ]

BrimWidths == { 50 * b : b \in 0..MaxBrim }

AllParameterSets ==
    { [ slicingParametersTPU EXCEPT
          !.num_perimeters       = n,
          !.brim_width           = b,
          !.extrusion_multiplier = m,
          !.infill_density       = d,
          !.infill_angle         = a,
          !.infill_layer_freq    = f ] :
        n \in 0..MaxPerimeters, b \in BrimWidths, m \in {100, 120},
        d \in {0, 20}, a \in {0}, f \in {1, 2, 3} }

ParameterSets ==
    { sp \in AllParameterSets :
        sp.infill_density > 0 \/ sp.infill_layer_freq = 1 }

PauseLists == { << 610 >>, << 30, 50 >> }

----------------------------------------------------------------------------
(* The geometry provider: gladius.LoadAssembly / ComputeBoundingBox /      *)
(* GenerateContour.  The loaded model is an extrusion of one square, or of  *)
(* a square and a smaller square next to it, of height z_max; a contour is  *)
(* the sequence of its polygons, a polygon the sequence of its vertices.    *)
(* A model may carry one fault: at one call the provider raises, or one    *)
(* polygon of the contour reports size 0.                                   *)

ModelHeights == { 20 * k + 10 : k \in 1..MaxZ }

Parts(shape) ==
    IF shape = "square" THEN << << 0, 0, 1000, 1000 >> >>
    ELSE << << 0, 0, 1000, 1000 >>, << 1500, 0, 1700, 200 >> >>

Rect(r, off) == << r[1] - off, r[2] - off, r[3] + off, r[4] + off >>

RectPolygon(r) ==
    << << r[1], r[2] >>, << r[3], r[2] >>, << r[3], r[4] >>, << r[1], r[4] >> >>

Kernels ==
    { [ shape |-> s, z_min |-> 0, z_max |-> h, fault |-> "none",
        faultLayer |-> 0, faultStage |-> "outer" ] :
        s \in {"square", "twin"}, h \in ModelHeights }
    \cup
    { [ shape |-> "square", z_min |-> 0, z_max |-> 50, fault |-> ft,
        faultLayer |-> l, faultStage |-> st ] :
        ft \in {"raise", "zero_size"}, l \in 0..1,
        st \in {"outer", "shell", "infill"} }

BoundingBox(k) ==
    IF k.shape = "square" THEN << 0, 0, 1000, 1000 >>
    ELSE << 0, 0, 1700, 1000 >>

FaultAt(k, layer, stage) ==
    IF k.faultLayer = layer /\ k.faultStage = stage THEN k.fault ELSE "none"

\* the contour of the model at height z, offset by off (negative = inward)
GenerateContour(k, z, off, layer, stage) ==
    LET parts == Parts(k.shape)
        alive == SelectSeq(parts, LAMBDA r :
                     /\ z >= k.z_min /\ z <= k.z_min + k.z_max
                     /\ r[3] - r[1] + 2 * off > 0
                     /\ r[4] - r[2] + 2 * off > 0)
        polys == [ n \in 1..Len(alive) |-> RectPolygon(Rect(alive[n], off)) ]
    IN  IF FaultAt(k, layer, stage) = "zero_size"
        THEN << << >> >> \o polys
        ELSE polys

----------------------------------------------------------------------------
(* Lines of the output file.  op is the command word, x and y the target,  *)
(* e the written E value (1e-5 mm), v the other numeric argument (S, F, Z). *)
(* layer and phase record the place of main() that wrote the line.          *)

Cmd(op, x, y, e, v) == [ op |-> op, x |-> x, y |-> y, e |-> e, v |-> v ]

Line(op) == Cmd(op, 0, 0, 0, 0)

LineV(op, v) == Cmd(op, 0, 0, 0, v)

Written(cmds, layer, phase) ==
    [ n \in 1..Len(cmds) |->
        [ op |-> cmds[n].op, x |-> cmds[n].x, y |-> cmds[n].y,
          e |-> cmds[n].e, v |-> cmds[n].v, layer |-> layer, phase |-> phase ] ]

----------------------------------------------------------------------------
(* GcodeWriter.  Every operation yields the lines it writes; addPolygons   *)
(* also yields the extruder position it leaves.                             *)

enableAbsolutePositioning == << Line("G90"), Line("M82") >>

setExtruderTemperature(temperature) == << LineV("M109", temperature) >>

setExtruderTemperatureWithoutWait(temperature) == << LineV("M104", temperature) >>

setFanSpeed(speed) == << LineV("M106", speed) >>

setAcceleration(sp) == << LineV("M204", sp.acceleration) >>

\* layerChange without line 146
layerChange_keep_position(z_height, lh, pos) ==
    [ lines |->
        << Line(";LAYER_CHANGE"), LineV(";Z:", z_height), LineV(";HEIGHT:", lh),
           Line(";BEFORE_LAYER_CHANGE"), LineV(";", z_height),
           LineV("G1 Z", z_height), Line("G92 E0") >>,
      pos |-> pos ]

layerChange(z_height, lh, pos) ==
    [ lines |->
        << Line(";LAYER_CHANGE"), LineV(";Z:", z_height), LineV(";HEIGHT:", lh),
           Line(";BEFORE_LAYER_CHANGE"), LineV(";", z_height),
           LineV("G1 Z", z_height), Line("G92 E0") >>,
      pos |-> 0 ]

track_area_mm2(sp, lh) ==
    (sp.extrusion_width - lh) * lh + (lh * lh * PiMilli) \div 4000

nozzle_area(sp) ==
    (sp.nozzle_diameter * sp.nozzle_diameter * PiMilli) \div 4000

\* mm per minute
perimeter_feedrate(sp, lh) ==
    (sp.extrusion_multiplier * sp.volume_rate_mm3_per_s * 6000)
        \div track_area_mm2(sp, lh)

\* addPolygons, line 158: extrusion per extruded mm, in 1e-6
perimeter_extrusion_per_extruded_mm(sp, lh) ==
    (track_area_mm2(sp, lh) * 100000) \div nozzle_area(sp)

\* distance * extrusion_per_extruded_mm, in 1e-7 mm
extruder_distance(distance, epm) == (distance * epm) \div 10

\* addPolygons without line 184
ClosePolygon_open(polygon) == polygon

\* line 184: polygon = np.vstack([polygon, polygon[0]])
ClosePolygon(polygon) == Append(polygon, polygon[1])

\* lines 186-200: the extruding moves over the vertices from index n on
RECURSIVE ExtrudeVertices(_, _, _, _, _)
ExtrudeVertices(polygon, n, previous_vertex, pos, epm) ==
    IF n > Len(polygon) THEN [ lines |-> << >>, pos |-> pos ]
    ELSE LET currentVertex == polygon[n]
             newpos == pos + extruder_distance(
                           Distance(previous_vertex, currentVertex), epm)
             rest == ExtrudeVertices(polygon, n + 1, currentVertex, newpos, epm)
         IN  [ lines |-> << Cmd("G1 X Y E", currentVertex[1], currentVertex[2],
                                Fmt5(newpos), 0) >> \o rest.lines,
               pos |-> rest.pos ]

\* addPolygons with the test of line 161 after the header lines
addPolygon_late_skip(sp, polygon, lh, pos) ==
    IF Len(polygon) = 0
    THEN [ lines |-> << Line(";TYPE:Perimeter"),
                        LineV(";WIDTH:", sp.extrusion_width) >>,
           pos |-> pos ]
    ELSE LET epm == perimeter_extrusion_per_extruded_mm(sp, lh)
             moves == ExtrudeVertices(ClosePolygon(polygon), 1, polygon[1],
                                      pos, epm)
         IN  [ lines |->
                 << Cmd("G1 X Y F", polygon[1][1], polygon[1][2], 0,
                        sp.travel_speed * 60),
                    Line(";TYPE:Perimeter"),
                    LineV(";WIDTH:", sp.extrusion_width),
                    LineV(";EXTRUSION:", epm),
                    LineV(";FEEDRATE:", perimeter_feedrate(sp, lh)),
                    LineV(";nozzle_area:", nozzle_area(sp)),
                    LineV(";track_area_mm2:", track_area_mm2(sp, lh)),
                    LineV("G1 F", perimeter_feedrate(sp, lh)) >>
                 \o moves.lines,
               pos |-> moves.pos ]

\* lines 160-200: one polygon of addPolygons
addPolygon(sp, polygon, lh, pos) ==
    IF Len(polygon) = 0 THEN [ lines |-> << >>, pos |-> pos ]
    ELSE LET epm == perimeter_extrusion_per_extruded_mm(sp, lh)
             moves == ExtrudeVertices(ClosePolygon(polygon), 1, polygon[1],
                                      pos, epm)
         IN  [ lines |->
                 << Cmd("G1 X Y F", polygon[1][1], polygon[1][2], 0,
                        sp.travel_speed * 60),
                    Line(";TYPE:Perimeter"),
                    LineV(";WIDTH:", sp.extrusion_width),
                    LineV(";EXTRUSION:", epm),
                    LineV(";FEEDRATE:", perimeter_feedrate(sp, lh)),
                    LineV(";nozzle_area:", nozzle_area(sp)),
                    LineV(";track_area_mm2:", track_area_mm2(sp, lh)),
                    LineV("G1 F", perimeter_feedrate(sp, lh)) >>
                 \o moves.lines,
               pos |-> moves.pos ]

RECURSIVE addPolygons(_, _, _, _)
addPolygons(sp, polys, lh, pos) ==
    IF Len(polys) = 0 THEN [ lines |-> << >>, pos |-> pos ]
    ELSE LET first == addPolygon(sp, Head(polys), lh, pos)
             rest == addPolygons(sp, Tail(polys), lh, first.pos)
         IN  [ lines |-> first.lines \o rest.lines, pos |-> rest.pos ]

addPause == << Line("PAUSE") >>

setBedTemperature(sp) == << LineV("M190", sp.bed_temperature) >>

\* endPrint without line 214
endPrint_unfinished == << LineV("M104", 0), LineV("M140", 0) >>

endPrint == << LineV("M104", 0), LineV("M140", 0), Line("END_PRINT") >>

startPrint(sp) ==
    << Line("M73 P0 R30"), LineV("M190", sp.bed_temperature),
       LineV("M104", sp.nozzle_temperature), Line(";TYPE:Custom"),
       Line("SET_FAN_SPEED FAN=nevermore1 SPEED=1"),
       Line("SET_FAN_SPEED FAN=nevermore2 SPEED=1"),
       Line("MMU__MOTORS_OFF"), Line("MMU ENABLE=0"),
       LineV("START_PRINT", sp.nozzle_temperature),
       Line(";SET_SKEW XY=AC,BD,AD"), Line("SET_SKEW XY=140.8,141.0,99.7"),
       Line("MMU__MOTORS_OFF"), Line("MMU ENABLE=0"),
       LineV("M109", sp.nozzle_temperature), Line("G21"), Line("G90"),
       Line("M83"), Line("; Filament gcode"), Line("SET_GCODE_OFFSET Z=0"),
       Line("SET_PRESSURE_ADVANCE ADVANCE=0.00"),
       Line("SET_PRESSURE_ADVANCE EXTRUDER=extruder SMOOTH_TIME=0.02"),
       Line("M107") >>

startObject == << Line(";[exclude_object build_plate]") >>

endObject == << Line(";[end_exclude_object]") >>

setSpeedFactor(speed_factor) == << LineV("M220", speed_factor) >>

----------------------------------------------------------------------------
(* Loop extractor *)

\* lines 260-264: walk the vertex cursor of a polygon from vertex n
RECURSIVE WalkVertices(_, _)
WalkVertices(polygon, n) ==
    IF n > Len(polygon) THEN << >>
    ELSE << polygon[n] >> \o WalkVertices(polygon, n + 1)

\* vertices[0] of an empty list raises IndexError
process_polygon(polygon) ==
    LET vertices == WalkVertices(polygon, 1)
    IN  IF Len(vertices) = 0
        THEN [ raised |-> TRUE, vertices |-> << >> ]
        ELSE [ raised |-> FALSE, vertices |-> Append(vertices, vertices[1]) ]

RECURSIVE process_contour(_)
process_contour(contour) ==
    IF Len(contour) = 0 THEN [ raised |-> FALSE, polygons |-> << >> ]
    ELSE LET first == process_polygon(Head(contour))
             rest == process_contour(Tail(contour))
         IN  IF first.raised \/ rest.raised
             THEN [ raised |-> TRUE, polygons |-> << >> ]
             ELSE [ raised |-> FALSE,
                    polygons |-> << first.vertices >> \o rest.polygons ]

----------------------------------------------------------------------------
(* Travel order optimizer.  The routing solver is given the distance       *)
(* matrix of the start points and one vehicle with depot node 0 (node 1    *)
(* here).  It builds a first tour by PATH_CHEAPEST_ARC and improves it: it  *)
(* answers with the first tour when no tour is cheaper, and else with a     *)
(* tour of least cost, any of them when several have the least cost.       *)

\* line 297, quantized to 1/1000 mm
distance_matrix(vertices) ==
    [ a \in 1..Len(vertices) |-> [ b \in 1..Len(vertices) |->
        Sqrt(100 * ( (vertices[a][1] - vertices[b][1])
                       * (vertices[a][1] - vertices[b][1])
                   + (vertices[a][2] - vertices[b][2])
                       * (vertices[a][2] - vertices[b][2]) )) ] ]

RECURSIVE PathCost(_, _)
PathCost(dm, tour) ==
    IF Len(tour) < 2 THEN 0
    ELSE dm[tour[1]][tour[2]] + PathCost(dm, Tail(tour))

\* cost of the route of the vehicle: the arcs of the tour and the arc back
TourCost(dm, tour) == PathCost(dm, tour) + dm[tour[Len(tour)]][tour[1]]

\* PATH_CHEAPEST_ARC: extend the route by the cheapest arc to an unvisited node
RECURSIVE CheapestArc(_, _, _)
CheapestArc(dm, tour, rest) ==
    IF rest = {} THEN tour
    ELSE LET last == tour[Len(tour)]
             near == { k \in rest : \A m \in rest : dm[last][k] <= dm[last][m] }
             next == CHOOSE k \in near : \A m \in near : k <= m
         IN  CheapestArc(dm, Append(tour, next), rest \ {next})

\* the tours from tour over rest whose cost stays within bound
RECURSIVE ToursWithin(_, _, _, _, _)
ToursWithin(dm, tour, rest, cost, bound) ==
    IF rest = {}
    THEN IF cost + dm[tour[Len(tour)]][tour[1]] <= bound THEN {tour} ELSE {}
    ELSE UNION { ToursWithin(dm, Append(tour, k), rest \ {k},
                             cost + dm[tour[Len(tour)]][k], bound) :
                 k \in { m \in rest : cost + dm[tour[Len(tour)]][m] <= bound } }

\* routing.SolveWithParameters: the tours the solver may answer with
SolveWithParameters(dm, n) ==
    LET first == CheapestArc(dm, << 1 >>, 2..n)
        cheaper == ToursWithin(dm, << 1 >>, 2..n, 0, TourCost(dm, first) - 1)
    IN  IF cheaper = {} THEN { first }
        ELSE { t \in cheaper :
                 \A u \in cheaper : TourCost(dm, t) <= TourCost(dm, u) }

\* the orders reduce_travel_moves may return
reduce_travel_moves(polys) ==
    IF Len(polys) = 0 THEN { polys }
    ELSE LET vertices == [ n \in 1..Len(polys) |-> polys[n][1] ]
             dm == distance_matrix(vertices)
         IN  { [ n \in 1..Len(polys) |-> polys[permutation[n]] ] :
                 permutation \in SolveWithParameters(dm, Len(polys)) }

----------------------------------------------------------------------------
(* Straight line infill.  The clipping engine is modelled for the regions  *)
(* the geometry provider yields: axis-parallel rectangles that do not      *)
(* overlap, and sweep lines at a multiple of 90 degrees.                   *)

Cos(angle) ==
    LET a == angle % 360
    IN  IF a = 0 THEN 1 ELSE IF a = 180 THEN 0 - 1 ELSE 0

Sin(angle) ==
    LET a == angle % 360
    IN  IF a = 90 THEN 1 ELSE IF a = 270 THEN 0 - 1 ELSE 0

Min(S) == CHOOSE a \in S : \A b \in S : a <= b

Max(S) == CHOOSE a \in S : \A b \in S : a >= b

\* the region of a closed path: its bounding rectangle
PathRect(path) ==
    LET xs == { path[n][1] : n \in 1..Len(path) }
        ys == { path[n][2] : n \in 1..Len(path) }
    IN  << Min(xs), Min(ys), Max(xs), Max(ys) >>

\* Intersection of the open path of the line through (nx * dist, ny * dist)
\* along (-ny, nx) with one closed path
ClipLine(nx, ny, dist, r) ==
    IF ny = 0
    THEN IF r[1] < nx * dist /\ nx * dist < r[3]
         THEN IF nx > 0
              THEN << << << nx * dist, r[2] >>, << nx * dist, r[4] >> >> >>
              ELSE << << << nx * dist, r[4] >>, << nx * dist, r[2] >> >> >>
         ELSE << >>
    ELSE IF r[2] < ny * dist /\ ny * dist < r[4]
         THEN IF ny > 0
              THEN << << << r[3], ny * dist >>, << r[1], ny * dist >> >> >>
              ELSE << << << r[1], ny * dist >>, << r[3], ny * dist >> >> >>
         ELSE << >>

RECURSIVE ClipAll(_, _, _, _)
ClipAll(nx, ny, dist, rects) ==
    IF Len(rects) = 0 THEN << >>
    ELSE ClipLine(nx, ny, dist, Head(rects))
             \o ClipAll(nx, ny, dist, Tail(rects))

\* lines 413-461: the sweep lines n..last
RECURSIVE SweepLines(_, _, _, _, _, _, _)
SweepLines(n, last, nx, ny, proj_dist, spacing, rects) ==
    IF n > last THEN << >>
    ELSE ClipAll(nx, ny, proj_dist + n * spacing, rects)
             \o SweepLines(n + 1, last, nx, ny, proj_dist, spacing, rects)

generate_straight_line_infill(polys, line_spacing, angle, bounds) ==
    LET clipper_polygons == SelectSeq(polys, LAMBDA p : Len(p) >= 3)
        result_paths == [ n \in 1..Len(clipper_polygons) |->
                            PathRect(clipper_polygons[n]) ]
        diagonal == Sqrt( (bounds[3] - bounds[1]) * (bounds[3] - bounds[1])
                        + (bounds[4] - bounds[2]) * (bounds[4] - bounds[2]) )
        center_x == (bounds[1] + bounds[3]) \div 2
        center_y == (bounds[2] + bounds[4]) \div 2
        proj_dist == center_x * Cos(angle) + center_y * Sin(angle)
        num_lines == (diagonal \div line_spacing) + 1
    IN  IF Len(clipper_polygons) = 0 THEN << >>
        ELSE SweepLines(0 - num_lines, num_lines, Cos(angle), Sin(angle),
                        proj_dist, line_spacing, result_paths)

\* lines 724-732 of main
infill_feedrate(sp, lh) ==
    (100 * sp.volume_rate_mm3_per_s * 6000) \div track_area_mm2(sp, lh)

infill_extrusion_per_extruded_mm(sp, lh) ==
    (((track_area_mm2(sp, lh) * 100000) \div nozzle_area(sp))
        * sp.extrusion_multiplier) \div 100

\* lines 738-761 of main
RECURSIVE InfillSegments(_, _, _, _)
InfillSegments(sp, segments, lh, pos) ==
    IF Len(segments) = 0 THEN [ lines |-> << >>, pos |-> pos ]
    ELSE LET start_point == Head(segments)[1]
             end_point == Head(segments)[2]
             newpos == pos + extruder_distance(
                           Distance(start_point, end_point),
                           infill_extrusion_per_extruded_mm(sp, lh))
             rest == InfillSegments(sp, Tail(segments), lh, newpos)
         IN  [ lines |->
                 << Cmd("G1 X Y F", start_point[1], start_point[2], 0,
                        sp.travel_speed * 60),
                    LineV("G1 F", infill_feedrate(sp, lh)),
                    Cmd("G1 X Y E", end_point[1], end_point[2],
                        Fmt5(newpos), 0) >> \o rest.lines,
               pos |-> rest.pos ]

\* lines 718-761 of main
WriteInfill(sp, segments, lh, pos) ==
    IF Len(segments) = 0 THEN [ lines |-> << >>, pos |-> pos ]
    ELSE LET moves == InfillSegments(sp, segments, lh, pos)
         IN  [ lines |-> << Line(";TYPE:Infill"),
                            LineV(";WIDTH:", sp.extrusion_width) >>
                         \o moves.lines,
               pos |-> moves.pos ]

----------------------------------------------------------------------------
(* main() *)

\* line 601: z_range = range(0, int(z_max * 1000), int(z_step * 1000))
z_step_um(sp) == sp.layer_height * 10

total_steps(sp, k) == CeilDiv(k.z_max * 10, z_step_um(sp))

z_range(sp, n) == n * z_step_um(sp)

\* line 629
LayerZ(sp, n) == sp.first_layer_height + z_range(sp, n) \div 10

\* line 648
start_offset(sp) == 0 - (sp.extrusion_width \div 2)

\* lines 664-668 with the quotient rounded down
num_brim_lines_floor(sp) == sp.brim_width \div sp.extrusion_width

\* lines 664-668
num_brim_lines(sp) == CeilDiv(sp.brim_width, sp.extrusion_width)

\* lines 658-669: the first index of offsetRange
offsetRangeStart(sp, layer) ==
    IF layer = 0 THEN 0 - num_brim_lines(sp) ELSE 0

copysign(a, b) == IF b < 0 THEN 0 - a ELSE a

\* lines 675-679
next_offset(sp, off, n) ==
    off - copysign(1, n)
            * ((sp.extrusion_width * (100 - sp.perimeter_overlap)) \div 100)

\* line 690
InfillLayer(sp, layer) ==
    sp.infill_density > 0 /\ layer % sp.infill_layer_freq = 0

\* line 692
innermost_offset(sp, off) ==
    off + (sp.extrusion_width * sp.infill_overlap) \div 100

\* lines 626 and 702
infill_angles(sp) == << sp.infill_angle, sp.infill_angle + 90 >>

\* line 702 without the layer index
layer_infill_angle_first(sp, layer) == infill_angles(sp)[1]

layer_infill_angle(sp, layer) == infill_angles(sp)[(layer % 2) + 1]

\* line 764 without the test of pause_triggered
PauseDue_retrigger(triggered, z, pause) == z > pause

\* line 764
PauseDue(triggered, z, pause) == (~ triggered) /\ z > pause

\* lines 763-768 over the pauses from index n on
RECURSIVE CheckPauses(_, _, _, _)
CheckPauses(pauses, n, z, triggered) ==
    IF n > Len(pauses) THEN [ lines |-> << >>, triggered |-> triggered ]
    ELSE IF PauseDue(triggered[pauses[n]], z, pauses[n])
         THEN LET rest == CheckPauses(pauses, n + 1, z,
                              [ triggered EXCEPT ![pauses[n]] = TRUE ])
              IN  [ lines |-> addPause \o rest.lines,
                    triggered |-> rest.triggered ]
         ELSE CheckPauses(pauses, n + 1, z, triggered)

\* lines 615-623 with enableAbsolutePositioning ahead of startPrint
PreambleLines_absolute_first(sp) ==
    enableAbsolutePositioning \o startPrint(sp) \o setAcceleration(sp)
        \o setExtruderTemperatureWithoutWait(sp.first_layer_temperature)
        \o setBedTemperature(sp)

\* lines 615-623
PreambleLines(sp) ==
    startPrint(sp) \o enableAbsolutePositioning \o setAcceleration(sp)
        \o setExtruderTemperatureWithoutWait(sp.first_layer_temperature)
        \o setBedTemperature(sp)

\* lines 634-643 without the branch of i == 2
TransitionLines_first_layer_only(sp, layer) ==
    IF layer = 0 THEN setFanSpeed(0) \o setSpeedFactor(50) ELSE << >>

\* lines 634-643
TransitionLines(sp, layer) ==
    (IF layer = 0 THEN setFanSpeed(0) \o setSpeedFactor(50) ELSE << >>)
    \o (IF layer = 2
        THEN setFanSpeed(sp.fan_speed) \o setSpeedFactor(100)
             \o setExtruderTemperatureWithoutWait(sp.nozzle_temperature)
        ELSE << >>)

\* the call of gladius.GenerateContour main() is about to make, if any
PendingCall ==
    IF pc = "outer"
    THEN [ stage |-> "outer", offset |-> start_offset(slicing_params) ]
    ELSE IF pc = "shells" /\ j < slicing_params.num_perimeters
    THEN [ stage |-> "shell", offset |-> offset ]
    ELSE IF pc = "infill" /\ InfillLayer(slicing_params, i)
    THEN [ stage |-> "infill",
           offset |-> innermost_offset(slicing_params, offset) ]
    ELSE [ stage |-> "none", offset |-> 0 ]

CallRecord ==
    [ layer |-> i, stage |-> PendingCall.stage,
      j |-> IF PendingCall.stage = "shell" THEN j ELSE 0,
      z |-> z_height_mm + kernel.z_min, offset |-> PendingCall.offset ]

Contour ==
    GenerateContour(kernel, z_height_mm + kernel.z_min, PendingCall.offset,
                    i, PendingCall.stage)

Raises == FaultAt(kernel, i, PendingCall.stage) = "raise"

Init ==
    /\ slicing_params \in ParameterSets
    /\ kernel \in Kernels
    /\ list_of_pause_zheights \in PauseLists
    /\ kernel.fault # "none" =>
           /\ slicing_params.extrusion_multiplier = 120
           /\ list_of_pause_zheights = << 610 >>
    /\ kernel.shape = "twin" =>
           /\ slicing_params.num_perimeters <= 1
           /\ slicing_params.brim_width <= 50
    /\ pc = "start"
    /\ out = << >>
    /\ extruder_position = 0
    /\ i = 0
    /\ previous_z = 0
    /\ z_height_mm = 0
    /\ layer_height = 0
    /\ offset = 0
    /\ j = 0
    /\ polygons = << >>
    /\ pause_triggered =
           [ p \in { list_of_pause_zheights[n] :
                       n \in 1..Len(list_of_pause_zheights) } |-> FALSE ]
    /\ calls = << >>

\* lines 613-623
Preamble ==
    /\ pc = "start"
    /\ out' = out \o Written(PreambleLines(slicing_params), 0 - 1, "preamble")
    /\ pc' = "layer"
    /\ UNCHANGED << slicing_params, kernel, list_of_pause_zheights,
                    extruder_position, i, previous_z, z_height_mm,
                    layer_height, offset, j, polygons, pause_triggered, calls >>

\* lines 628-646
LayerBegin ==
    /\ pc = "layer"
    /\ i < total_steps(slicing_params, kernel)
    /\ LET z == LayerZ(slicing_params, i)
           change == layerChange(z, z - previous_z, extruder_position)
       IN  /\ z_height_mm' = z
           /\ layer_height' = z - previous_z
           /\ previous_z' = z
           /\ out' = out
                  \o Written(TransitionLines(slicing_params, i), i, "transition")
                  \o Written(change.lines \o startObject, i, "layer_change")
           /\ extruder_position' = change.pos
    /\ pc' = "outer"
    /\ UNCHANGED << slicing_params, kernel, list_of_pause_zheights, i, offset,
                    j, polygons, pause_triggered, calls >>

\* lines 648-669
OuterContour ==
    /\ pc = "outer"
    /\ ~ Raises
    /\ LET extracted == process_contour(Contour)
       IN  /\ ~ extracted.raised
           /\ \E sorted_perimeter \in reduce_travel_moves(extracted.polygons) :
                 LET written == addPolygons(slicing_params, sorted_perimeter,
                                            layer_height, extruder_position)
                 IN  /\ out' = out \o Written(written.lines, i, "outer")
                     /\ extruder_position' = written.pos
    /\ calls' = Append(calls, CallRecord)
    /\ offset' = start_offset(slicing_params)
    /\ polygons' = << >>
    /\ j' = offsetRangeStart(slicing_params, i)
    /\ pc' = "shells"
    /\ UNCHANGED << slicing_params, kernel, list_of_pause_zheights, i,
                    previous_z, z_height_mm, layer_height, pause_triggered >>

\* lines 671-679: one pass of the shell loop
ShellQuery ==
    /\ pc = "shells"
    /\ j < slicing_params.num_perimeters
    /\ ~ Raises
    /\ LET extracted == process_contour(Contour)
       IN  /\ ~ extracted.raised
           /\ polygons' = polygons \o extracted.polygons
    /\ calls' = Append(calls, CallRecord)
    /\ offset' = next_offset(slicing_params, offset, j)
    /\ j' = j + 1
    /\ UNCHANGED << slicing_params, kernel, list_of_pause_zheights, pc, out,
                    extruder_position, i, previous_z, z_height_mm,
                    layer_height, pause_triggered >>

\* lines 685-687
ShellEmit ==
    /\ pc = "shells"
    /\ j >= slicing_params.num_perimeters
    /\ \E sorted_perimeter \in reduce_travel_moves(polygons) :
          LET written == addPolygons(slicing_params, sorted_perimeter,
                                     layer_height, extruder_position)
          IN  /\ out' = out \o Written(written.lines, i, "shell")
              /\ extruder_position' = written.pos
    /\ pc' = "infill"
    /\ UNCHANGED << slicing_params, kernel, list_of_pause_zheights, i,
                    previous_z, z_height_mm, layer_height, offset, j,
                    polygons, pause_triggered, calls >>

\* lines 689-761 on a layer with infill
Infill ==
    /\ pc = "infill"
    /\ InfillLayer(slicing_params, i)
    /\ ~ Raises
    /\ LET extracted == process_contour(Contour)
           line_spacing == (slicing_params.extrusion_width * 100)
                               \div slicing_params.infill_density
           infill_lines ==
               IF Len(extracted.polygons) > 0
               THEN generate_straight_line_infill(extracted.polygons,
                        line_spacing, layer_infill_angle(slicing_params, i),
                        BoundingBox(kernel))
               ELSE << >>
           written == WriteInfill(slicing_params, infill_lines, layer_height,
                                  extruder_position)
       IN  /\ ~ extracted.raised
           /\ out' = out \o Written(written.lines, i, "infill")
           /\ extruder_position' = written.pos
    /\ calls' = Append(calls, CallRecord)
    /\ pc' = "pause"
    /\ UNCHANGED << slicing_params, kernel, list_of_pause_zheights, i,
                    previous_z, z_height_mm, layer_height, offset, j,
                    polygons, pause_triggered >>

\* line 690 on a layer without infill
SkipInfill ==
    /\ pc = "infill"
    /\ ~ InfillLayer(slicing_params, i)
    /\ pc' = "pause"
    /\ UNCHANGED << slicing_params, kernel, list_of_pause_zheights, out,
                    extruder_position, i, previous_z, z_height_mm,
                    layer_height, offset, j, polygons, pause_triggered, calls >>

\* lines 763-770
PauseCheck ==
    /\ pc = "pause"
    /\ LET checked == CheckPauses(list_of_pause_zheights, 1, z_height_mm,
                                  pause_triggered)
       IN  /\ out' = out \o Written(checked.lines, i, "pause")
                         \o Written(endObject, i, "end_object")
           /\ pause_triggered' = checked.triggered
    /\ i' = i + 1
    /\ pc' = "layer"
    /\ UNCHANGED << slicing_params, kernel, list_of_pause_zheights,
                    extruder_position, previous_z, z_height_mm, layer_height,
                    offset, j, polygons, calls >>

\* line 772, and the end of the with block
EndPrint ==
    /\ pc = "layer"
    /\ i >= total_steps(slicing_params, kernel)
    /\ out' = out \o Written(endPrint, i, "postamble")
    /\ pc' = "done"
    /\ UNCHANGED << slicing_params, kernel, list_of_pause_zheights,
                    extruder_position, i, previous_z, z_height_mm,
                    layer_height, offset, j, polygons, pause_triggered, calls >>

\* gladius.GenerateContour raises EGladiusLibException: the with block
\* closes the file and lines 779-780 print the exception
GenerateContourRaises ==
    /\ PendingCall.stage # "none"
    /\ Raises
    /\ calls' = Append(calls, CallRecord)
    /\ pc' = "aborted"
    /\ UNCHANGED << slicing_params, kernel, list_of_pause_zheights, out,
                    extruder_position, i, previous_z, z_height_mm,
                    layer_height, offset, j, polygons, pause_triggered >>

\* line 266 raises IndexError, which nothing catches
ProcessPolygonRaises ==
    /\ PendingCall.stage # "none"
    /\ ~ Raises
    /\ process_contour(Contour).raised
    /\ calls' = Append(calls, CallRecord)
    /\ pc' = "crashed"
    /\ UNCHANGED << slicing_params, kernel, list_of_pause_zheights, out,
                    extruder_position, i, previous_z, z_height_mm,
                    layer_height, offset, j, polygons, pause_triggered >>

Next ==
    \/ Preamble
    \/ LayerBegin
    \/ OuterContour
    \/ ShellQuery
    \/ ShellEmit
    \/ Infill
    \/ SkipInfill
    \/ PauseCheck
    \/ EndPrint
    \/ GenerateContourRaises
    \/ ProcessPolygonRaises

Spec == Init /\ [][Next]_vars

----------------------------------------------------------------------------
(* Views of the output file and of the call log used by the properties *)

IsExtrude(line) == line.op = "G1 X Y E"

IsTravel(line) == line.op = "G1 X Y F"

Count(lines, Test(_)) == Cardinality({ n \in 1..Len(lines) : Test(lines[n]) })

PhaseLines(layer, phase) ==
    SelectSeq(out, LAMBDA l : l.layer = layer /\ l.phase = phase)

ShellCalls(layer) ==
    SelectSeq(calls, LAMBDA c : c.layer = layer /\ c.stage = "shell")

\* the layers whose shell loop has run to its end
ShellLoopDone(layer) ==
    \/ layer < i
    \/ layer = i /\ pc \in {"infill", "pause"}
    \/ layer = i /\ pc = "shells" /\ j >= slicing_params.num_perimeters

RECURSIVE SumLen(_)
SumLen(polys) ==
    IF Len(polys) = 0 THEN 0 ELSE Len(Head(polys)) + 1 + SumLen(Tail(polys))

----------------------------------------------------------------------------
(* C1: the extruder position is 0 right after every layer change, and     *)
(* between two layer changes the E values written on successive extruding  *)
(* moves never decrease.                                                    *)

\* Summary of the lines lo..hi: whether the E values between resets never
\* decrease, and the first and last of the reset and extruding lines
ELeaf(line) ==
    [ ok |-> TRUE,
      any |-> line.op = "G92 E0" \/ IsExtrude(line),
      headExtrudes |-> IsExtrude(line),
      headE |-> IF IsExtrude(line) THEN line.e ELSE 0,
      tailE |-> IF IsExtrude(line) THEN line.e ELSE 0 ]

EJoin(a, b) ==
    [ ok |-> /\ a.ok
             /\ b.ok
             /\ (a.any /\ b.any /\ b.headExtrudes) => a.tailE <= b.headE,
      any |-> a.any \/ b.any,
      headExtrudes |-> IF a.any THEN a.headExtrudes ELSE b.headExtrudes,
      headE |-> IF a.any THEN a.headE ELSE b.headE,
      tailE |-> IF b.any THEN b.tailE ELSE a.tailE ]

RECURSIVE ESummary(_, _)
ESummary(lo, hi) ==
    IF lo = hi THEN ELeaf(out[lo])
    ELSE LET mid == (lo + hi) \div 2
         IN  EJoin(ESummary(lo, mid), ESummary(mid + 1, hi))

ENonDecreasing ==
    Len(out) > 0 =>
        LET all == ESummary(1, Len(out))
        IN  all.ok /\ (all.headExtrudes => all.headE >= 0)

C1_ExtruderResetAndMonotone ==
    /\ (Len(out) > 0 /\ out[Len(out)].phase = "layer_change")
           => extruder_position = 0
    /\ ENonDecreasing

C1_Witness ==
    /\ pc = "outer"
    /\ i = 1
    /\ extruder_position = 0
    /\ \E n \in 1..Len(out) : IsExtrude(out[n]) /\ out[n].e > 0

----------------------------------------------------------------------------
(* C2: a run that ends without error has written the preamble, then layer *)
(* by layer in increasing index the layer change, the outer contour, the   *)
(* shells, the infill and the pause check, then the end of print once, as  *)
(* the last lines.                                                          *)

PhaseRank(phase) ==
    CASE phase = "preamble" -> 0
      [] phase = "transition" -> 1
      [] phase = "layer_change" -> 2
      [] phase = "outer" -> 3
      [] phase = "shell" -> 4
      [] phase = "infill" -> 5
      [] phase = "pause" -> 6
      [] phase = "end_object" -> 7
      [] phase = "postamble" -> 8

StreamKey(line) == 16 * line.layer + PhaseRank(line.phase)

C2_StreamOrder ==
    pc = "done" =>
        /\ \A n \in 1..(Len(out) - 1) : StreamKey(out[n]) <= StreamKey(out[n + 1])
        /\ out[1].phase = "preamble"
        /\ out[Len(out)].op = "END_PRINT"
        /\ Count(out, LAMBDA l : l.op = "END_PRINT") = 1
        /\ Count(out, LAMBDA l : l.op = ";LAYER_CHANGE") = i
        /\ \A n \in 1..Len(out) :
              /\ out[n].op = ";LAYER_CHANGE" => out[n].phase = "layer_change"
              /\ out[n].op = ";TYPE:Infill" => out[n].phase = "infill"
              /\ out[n].op = ";TYPE:Perimeter" => out[n].phase \in {"outer", "shell"}
              /\ out[n].op = "PAUSE" => out[n].phase = "pause"
              /\ out[n].phase = "postamble" => out[n].layer = i
              /\ out[n].phase \notin {"preamble", "postamble"}
                    => out[n].layer \in 0..(i - 1)
        /\ \A l \in 0..(i - 1) : Len(PhaseLines(l, "layer_change")) = 8

C2_Witness ==
    /\ pc = "done"
    /\ i >= 3
    /\ \E n \in 1..Len(out) : out[n].phase = "infill" /\ out[n].layer = 1
    /\ \E n \in 1..Len(out) : out[n].phase = "shell" /\ out[n].layer = 1
    /\ \E n \in 1..Len(out) : out[n].op = "PAUSE"

----------------------------------------------------------------------------
(* C3: for every loop of n >= 3 vertices handed to addPolygons the writer  *)
(* writes one travel move to vertex 0 and then n + 1 extruding moves, the   *)
(* last of them to vertex 0.                                                *)

LoopMoves(polygon) ==
    addPolygon(slicing_params, polygon, layer_height, 0).lines

C3_LoopMoveCount ==
    pc = "infill" =>
        /\ Count(PhaseLines(i, "shell"), IsTravel) = Len(polygons)
        /\ Count(PhaseLines(i, "shell"), IsExtrude) = SumLen(polygons)
        /\ \A n \in 1..Len(polygons) :
              LET polygon == polygons[n]
                  moves == LoopMoves(polygon)
              IN  Len(polygon) >= 3 =>
                    /\ IsTravel(moves[1])
                    /\ moves[1].x = polygon[1][1] /\ moves[1].y = polygon[1][2]
                    /\ Count(moves, IsTravel) = 1
                    /\ Count(moves, IsExtrude) = Len(polygon) + 1
                    /\ IsExtrude(moves[Len(moves)])
                    /\ moves[Len(moves)].x = polygon[1][1]
                    /\ moves[Len(moves)].y = polygon[1][2]
                    /\ \A m \in 1..Len(moves) :
                          IsExtrude(moves[m]) =>
                              \A q \in m..Len(moves) :
                                  moves[q].op = "G1 X Y E"

C3_Witness ==
    /\ pc = "infill"
    /\ Len(polygons) >= 2
    /\ \A n \in 1..Len(polygons) : Len(polygons[n]) >= 3
    /\ Count(PhaseLines(i, "shell"), IsExtrude) > 0

----------------------------------------------------------------------------
(* C4: a layer whose contour is one polygon of 4 vertices, with one shell, *)
(* no brim and no infill, gets 5 moves for the outer contour (1 travel and  *)
(* 4 extruding moves) and the same 5 moves for the shell pass.              *)

Moves(lines) == SelectSeq(lines, LAMBDA l : IsTravel(l) \/ IsExtrude(l))

SameTargets(a, b) ==
    /\ Len(a) = Len(b)
    /\ \A n \in 1..Len(a) :
          a[n].op = b[n].op /\ a[n].x = b[n].x /\ a[n].y = b[n].y

SquareJob ==
    /\ kernel.shape = "square"
    /\ kernel.fault = "none"
    /\ slicing_params.num_perimeters = 1
    /\ slicing_params.brim_width = 0
    /\ slicing_params.infill_density = 0

C4_SquareLayerFiveMoves ==
    (SquareJob /\ pc = "infill" /\ Len(polygons) = 1) =>
        LET outer == Moves(PhaseLines(i, "outer"))
            shell == Moves(PhaseLines(i, "shell"))
        IN  /\ Len(outer) = 5
            /\ Count(outer, IsTravel) = 1
            /\ Count(outer, IsExtrude) = 4
            /\ SameTargets(outer, shell)

----------------------------------------------------------------------------
(* C5: every extruding move, of a perimeter or of the infill, advances the *)
(* extruder position by its length times track_area / nozzle_area times 0.1 *)
(* times extrusion_multiplier.                                              *)

ClaimedExtrusionPerMm(sp, lh) ==
    (((track_area_mm2(sp, lh) * 100000) \div nozzle_area(sp))
        * sp.extrusion_multiplier) \div 100

\* the advance claimed for the moves lo..hi of a layer; a move is measured
\* from the target of the move before it
RECURSIVE ClaimedAdvance(_, _, _, _)
ClaimedAdvance(moves, lo, hi, epm) ==
    IF lo > hi THEN 0
    ELSE IF lo = hi
    THEN IF IsExtrude(moves[lo]) /\ lo > 1
         THEN extruder_distance(
                  Distance(<< moves[lo - 1].x, moves[lo - 1].y >>,
                           << moves[lo].x, moves[lo].y >>), epm)
         ELSE 0
    ELSE LET mid == (lo + hi) \div 2
         IN  ClaimedAdvance(moves, lo, mid, epm)
                 + ClaimedAdvance(moves, mid + 1, hi, epm)

LayerMoves == Moves(SelectSeq(out, LAMBDA l : l.layer = i))

C5_AdvanceByFormula ==
    pc = "pause" =>
        extruder_position =
            ClaimedAdvance(LayerMoves, 1, Len(LayerMoves),
                ClaimedExtrusionPerMm(slicing_params, layer_height))

----------------------------------------------------------------------------
(* C6: the shell loop of a layer makes N + ceil(B / W) contour queries on  *)
(* layer 0 and N on every other layer, for shell count N, brim width B and  *)
(* extrusion width W.                                                       *)

\* the least number of lines of width W that cover B
CeilLines(B, W) ==
    CHOOSE c \in 0..(B + 1) : c * W >= B /\ (c = 0 \/ (c - 1) * W < B)

C6_ShellQueryCount ==
    \A l \in 0..i :
        ShellLoopDone(l) =>
            Len(ShellCalls(l)) =
                slicing_params.num_perimeters
                + (IF l = 0
                   THEN CeilLines(slicing_params.brim_width,
                                  slicing_params.extrusion_width)
                   ELSE 0)

C6_Witness ==
    /\ pc = "pause"
    /\ i = 1
    /\ slicing_params.brim_width = 50
    /\ slicing_params.num_perimeters = 2
    /\ Len(ShellCalls(0)) = 3
    /\ Len(ShellCalls(1)) = 2

----------------------------------------------------------------------------
(* C7: on every layer the queries of the shells j = 0..N-1 nest inward:    *)
(* shell 0 is queried at -W/2, every following shell further inward by      *)
(* W * (1 - perimeter_overlap), and no offset is queried twice in one      *)
(* shell loop.                                                              *)

C7_ShellsNestInward ==
    \A l \in 0..i :
        ShellLoopDone(l) =>
            LET sc == ShellCalls(l)
                W == slicing_params.extrusion_width
                step == (W * (100 - slicing_params.perimeter_overlap)) \div 100
            IN  \A a \in 1..Len(sc) :
                    /\ sc[a].j = 0 => sc[a].offset = 0 - (W \div 2)
                    /\ sc[a].j >= 0 => sc[a].offset <= 0 - (W \div 2)
                    /\ (sc[a].j >= 0 /\ a < Len(sc))
                           => sc[a + 1].offset = sc[a].offset - step
                    /\ \A b \in 1..Len(sc) :
                           a # b => sc[a].offset # sc[b].offset

----------------------------------------------------------------------------
(* C8: every layer change is at a Z that does not exceed the model height, *)
(* the first layer has the first layer height and every later layer the     *)
(* steady-state layer height.                                               *)

C8_LayersWithinModel ==
    \A n \in 1..Len(out) :
        /\ out[n].op = "G1 Z" => out[n].v <= kernel.z_max
        /\ out[n].op = ";HEIGHT:" =>
              out[n].v = IF out[n].layer = 0
                         THEN slicing_params.first_layer_height
                         ELSE slicing_params.layer_height

----------------------------------------------------------------------------
(* C9: a configured pause height gets at most one pause command, written   *)
(* in the first layer whose Z exceeds it; a height no layer exceeds gets    *)
(* none.                                                                    *)

\* the Z of the layer change of a layer, as written
WrittenZ(l) ==
    out[CHOOSE n \in 1..Len(out) : out[n].op = "G1 Z" /\ out[n].layer = l].v

C9_PauseOnce ==
    LET zs == [ l \in 0..(i - 1) |-> WrittenZ(l) ]
        pauses == DOMAIN pause_triggered
    IN  pc \in {"layer", "done"} =>
          /\ \A l \in 0..(i - 1) :
                Count(PhaseLines(l, "pause"), LAMBDA c : c.op = "PAUSE")
                    = Cardinality({ p \in pauses :
                          /\ zs[l] > p
                          /\ \A m \in 0..(l - 1) : zs[m] <= p })
          /\ Count(out, LAMBDA c : c.op = "PAUSE")
                 = Cardinality({ p \in pauses :
                       \E l \in 0..(i - 1) : zs[l] > p })
          /\ \A p \in pauses :
                pause_triggered[p] <=> \E l \in 0..(i - 1) : zs[l] > p

C9_Witness ==
    /\ pc = "done"
    /\ i >= 4
    /\ Count(PhaseLines(1, "pause"), LAMBDA c : c.op = "PAUSE") = 1
    /\ Count(PhaseLines(2, "pause"), LAMBDA c : c.op = "PAUSE") = 1
    /\ Count(out, LAMBDA c : c.op = "PAUSE") = 2

----------------------------------------------------------------------------
(* C10: a polygon that reports size 0 yields no loop and no error:         *)
(* process_contour returns the loops of the other polygons and the job      *)
(* goes on.                                                                 *)

C10_ZeroSizeSkipped ==
    /\ pc # "crashed"
    /\ (PendingCall.stage # "none" /\ ~ Raises) =>
          LET extracted == process_contour(Contour)
          IN  /\ ~ extracted.raised
              /\ Len(extracted.polygons)
                     = Count(Contour, LAMBDA polygon : Len(polygon) > 0)

----------------------------------------------------------------------------
(* The GcodeWriter on its own: layerChange and addPolygons are called in   *)
(* any order, addPolygons with any list of loops, loops without vertices    *)
(* among them.  i counts the calls.                                         *)

MaxWriterCalls == 2

WriterLoops ==
    { << >>,
      << << 0, 0 >>, << 300, 0 >>, << 0, 400 >> >>,
      << << 100, 100 >>, << 200, 100 >>, << 200, 200 >>, << 100, 200 >>,
         << 100, 100 >> >> }

WriterLoopLists == UNION { [ 1..n -> WriterLoops ] : n \in 0..2 }

WriterInit ==
    /\ slicing_params = slicingParametersTPU
    /\ kernel \in { k \in Kernels :
                      k.shape = "square" /\ k.fault = "none" /\ k.z_max = 30 }
    /\ list_of_pause_zheights = << >>
    /\ pc = "writer"
    /\ out = << >>
    /\ extruder_position = 0
    /\ i = 0
    /\ previous_z = 0
    /\ z_height_mm = 0
    /\ layer_height = slicingParametersTPU.first_layer_height
    /\ offset = 0
    /\ j = 0
    /\ polygons = << >>
    /\ pause_triggered = << >>
    /\ calls = << >>

\* gcode_writer.layerChange(z_height_mm, layer_height)
WriterLayerChange ==
    /\ pc \in {"writer", "writer_changed", "writer_added"}
    /\ i < MaxWriterCalls
    /\ \E lh \in { slicing_params.first_layer_height,
                   slicing_params.layer_height } :
          LET change == layerChange(z_height_mm + lh, lh, extruder_position)
          IN  /\ out' = out \o Written(change.lines, i, "layer_change")
              /\ extruder_position' = change.pos
              /\ z_height_mm' = z_height_mm + lh
              /\ layer_height' = lh
    /\ i' = i + 1
    /\ pc' = "writer_changed"
    /\ UNCHANGED << slicing_params, kernel, list_of_pause_zheights,
                    previous_z, offset, j, polygons, pause_triggered, calls >>

\* gcode_writer.addPolygons(polygons, layer_height)
WriterAddPolygons ==
    /\ pc \in {"writer", "writer_changed", "writer_added"}
    /\ i < MaxWriterCalls
    /\ \E loops \in WriterLoopLists :
          LET written == addPolygons(slicing_params, loops, layer_height,
                                     extruder_position)
          IN  /\ out' = out \o Written(written.lines, i, "writer")
              /\ extruder_position' = written.pos
              /\ polygons' = loops
    /\ i' = i + 1
    /\ pc' = "writer_added"
    /\ UNCHANGED << slicing_params, kernel, list_of_pause_zheights,
                    previous_z, z_height_mm, layer_height, offset, j,
                    pause_triggered, calls >>

WriterNext ==
    \/ WriterLayerChange
    \/ WriterAddPolygons

WriterSpec == WriterInit /\ [][WriterNext]_vars

----------------------------------------------------------------------------
(* C11: a loop of 0 vertices handed to addPolygons adds no line to the     *)
(* output and leaves the extruder position alone, and the other loops of    *)
(* the same call are written as without it.                                 *)

WithVertices(loops) == SelectSeq(loops, LAMBDA loop : Len(loop) > 0)

C11_EmptyLoopSkipped ==
    [][ pc' = "writer_added" =>
          LET kept == WithVertices(polygons')
              written == addPolygons(slicing_params, kept, layer_height,
                                     extruder_position)
              new == SubSeq(out', Len(out) + 1, Len(out'))
          IN  /\ out' = out \o Written(written.lines, i, "writer")
              /\ extruder_position' = written.pos
              /\ Count(new, IsTravel) = Len(kept)
              /\ Count(new, LAMBDA l : l.op = ";TYPE:Perimeter") = Len(kept)
              /\ Count(new, LAMBDA l : l.op = "G1 F") = Len(kept)
              /\ Len(kept) = 0 =>
                    out' = out /\ extruder_position' = extruder_position
      ]_vars

C11_Witness ==
    /\ pc = "writer_added"
    /\ Len(polygons) = 2
    /\ Len(polygons[1]) = 0
    /\ Len(polygons[2]) > 0
    /\ Len(out) > 0
    /\ out[Len(out)].layer = i - 1
    /\ IsExtrude(out[Len(out)])
    /\ extruder_position > 0

----------------------------------------------------------------------------
(* reduce_travel_moves on its own: it is handed any list of loops whose    *)
(* start points are taken from TravelPoints.  calls keeps the argument of   *)
(* the call, whether the routing solver was run and whether it answered     *)
(* with a solution; polygons becomes the returned list.                     *)

MaxTravelLoops == 4

TravelPoints == { << 0, 0 >>, << -110, 100 >>, << 100, 0 >>, << 200, 100 >> }

TravelLoop(p) ==
    << p, << p[1] + 5, p[2] >>, << p[1] + 5, p[2] + 5 >>, p >>

TravelInputs ==
    UNION { { [ n \in 1..len |-> TravelLoop(starts[n]) ] :
                starts \in [ 1..len -> TravelPoints ] } :
            len \in 0..MaxTravelLoops }

\* lines 287-289 with the return taken for one vertex too
SolverInvoked_above_one(polys) == Len(polys) > 1

\* lines 287-289: the only return ahead of the solver
SolverInvoked(polys) == Len(polys) # 0

TravelCall(polys, solution) ==
    [ stage |-> "reduce_travel_moves", polygons |-> polys,
      solver |-> SolverInvoked(polys), solution |-> solution ]

TravelInit ==
    /\ slicing_params = slicingParametersTPU
    /\ kernel \in { k \in Kernels :
                      k.shape = "square" /\ k.fault = "none" /\ k.z_max = 30 }
    /\ list_of_pause_zheights = << >>
    /\ pc = "travel"
    /\ out = << >>
    /\ extruder_position = 0
    /\ i = 0
    /\ previous_z = 0
    /\ z_height_mm = 0
    /\ layer_height = 0
    /\ offset = 0
    /\ j = 0
    /\ polygons \in TravelInputs
    /\ pause_triggered = << >>
    /\ calls = << >>

\* reduce_travel_moves(polygons), the solver answering with a route
Reduce ==
    /\ pc = "travel"
    /\ \E ordered_polygons \in reduce_travel_moves(polygons) :
          polygons' = ordered_polygons
    /\ calls' = << TravelCall(polygons, TRUE) >>
    /\ pc' = "travel_done"
    /\ UNCHANGED << slicing_params, kernel, list_of_pause_zheights, out,
                    extruder_position, i, previous_z, z_height_mm,
                    layer_height, offset, j, pause_triggered >>

\* reduce_travel_moves(polygons), the solver answering with no solution
ReduceNoSolution ==
    /\ pc = "travel"
    /\ SolverInvoked(polygons)
    /\ polygons' = polygons
    /\ calls' = << TravelCall(polygons, FALSE) >>
    /\ pc' = "travel_done"
    /\ UNCHANGED << slicing_params, kernel, list_of_pause_zheights, out,
                    extruder_position, i, previous_z, z_height_mm,
                    layer_height, offset, j, pause_triggered >>

TravelNext ==
    \/ Reduce
    \/ ReduceNoSolution

TravelSpec == TravelInit /\ [][TravelNext]_vars

\* the travel between the consecutive start points of loops, no arc back
OpenCost(loops) ==
    LET vertices == [ n \in 1..Len(loops) |-> loops[n][1] ]
    IN  PathCost(distance_matrix(vertices), [ n \in 1..Len(loops) |-> n ])

Orders(n) == { q \in [ 1..n -> 1..n ] : \A a, b \in 1..n : q[a] = q[b] => a = b }

Occurrences(loops, loop) == Cardinality({ n \in 1..Len(loops) : loops[n] = loop })

IsPermutationOf(a, b) ==
    /\ Len(a) = Len(b)
    /\ \A n \in 1..Len(a) : Occurrences(a, a[n]) = Occurrences(b, a[n])

(* C12: the optimizer solves an open tour with a free start and a free     *)
(* end: the order it returns has the least sum of distances between        *)
(* consecutive start points of all orders of the loops, whichever loop     *)
(* they begin with, and no arc back to the first loop is counted.           *)
C12_OpenTourFreeEnds ==
    (pc = "travel_done" /\ calls[1].solution /\ Len(polygons) >= 2) =>
        \A q \in Orders(Len(polygons)) :
            OpenCost(polygons) <=
                OpenCost([ n \in 1..Len(polygons) |-> calls[1].polygons[q[n]] ])

(* C13: the returned order is a permutation of the input, its travel       *)
(* between consecutive start points is at most that of the input order,    *)
(* and it is the input order when the solver has no solution.               *)
C13_NoWorseThanInput ==
    pc = "travel_done" =>
        /\ IsPermutationOf(polygons, calls[1].polygons)
        /\ OpenCost(polygons) <= OpenCost(calls[1].polygons)
        /\ ~calls[1].solution => polygons = calls[1].polygons

(* C14, as stated: no loops give an empty order, and one loop is returned  *)
(* unchanged without a run of the routing solver.                           *)
C14_NoSolverBelowTwo ==
    (pc = "travel_done" /\ Len(calls[1].polygons) <= 1) =>
        /\ polygons = calls[1].polygons
        /\ ~calls[1].solver

(* C14, amended: no loops give an empty order without a run of the         *)
(* routing solver; one loop is returned unchanged, after a run of the      *)
(* solver on the problem of one node.                                       *)
C14_OneLoopUnchanged ==
    pc = "travel_done" =>
        /\ Len(calls[1].polygons) = 0 => polygons = << >> /\ ~calls[1].solver
        /\ Len(calls[1].polygons) = 1 =>
              polygons = calls[1].polygons /\ calls[1].solver

C14_Witness ==
    /\ pc = "travel_done"
    /\ Len(calls[1].polygons) = 1
    /\ calls[1].solution
    /\ polygons = calls[1].polygons

----------------------------------------------------------------------------
\* the index of the last line of lines that passes Test, 0 if none does
LastIndex(lines, Test(_)) ==
    LET found == { n \in 1..Len(lines) : Test(lines[n]) }
    IN  IF found = {} THEN 0
        ELSE CHOOSE n \in found : \A m \in found : m <= n

(* C15: when the geometry provider raises during a layer, the run ends and *)
(* the output is not left torn: its last line is the end of the postamble   *)
(* (END_PRINT), or a line written after the failure marks it incomplete.    *)
C15_AbortLeavesWholeFile ==
    pc = "aborted" =>
        /\ Len(out) > 0
        /\ \/ out[Len(out)].op = "END_PRINT"
           \/ out[Len(out)].phase = "incomplete"

(* C16: at every move with a cumulative E value the last extruder mode     *)
(* command written before it is M82 (absolute), never M83 (relative).      *)
C16_AbsoluteExtrusion ==
    \A n \in 1..Len(out) :
        IsExtrude(out[n]) =>
            LET mode == LastIndex(SubSeq(out, 1, n),
                                  LAMBDA l : l.op \in {"M82", "M83"})
            IN  mode > 0 /\ out[mode].op = "M82"

C16_Witness ==
    /\ \E n \in 1..Len(out) : out[n].op = "M83"
    /\ \E n \in 1..Len(out) : IsExtrude(out[n]) /\ out[n].layer = 0
    /\ \E n \in 1..Len(out) : IsExtrude(out[n]) /\ out[n].layer = 2
                                /\ out[n].phase = "infill"

IsSpeedFactor(l) == l.op = "M220"

IsFan(l) == l.op = "M106"

IsNozzleTarget(l) == l.op \in {"M104", "M109"} /\ l.phase # "postamble"

FirstLayerUndone ==
    LET speed == LastIndex(out, IsSpeedFactor)
        fan == LastIndex(out, IsFan)
        nozzle == LastIndex(out, IsNozzleTarget)
    IN  /\ speed > 0 /\ out[speed].v = 100
        /\ fan > 0 /\ out[fan].v = slicing_params.fan_speed
        /\ nozzle > 0 /\ out[nozzle].v = slicing_params.nozzle_temperature

(* C17, as stated: every completed job of at least one layer ends with the *)
(* speed factor 100, the configured fan speed and the steady nozzle        *)
(* temperature as the last values set ahead of the postamble.              *)
C17_UndoneInEveryJob ==
    (pc = "done" /\ total_steps(slicing_params, kernel) >= 1) =>
        FirstLayerUndone

(* C17, amended: every completed job of at least three layers ends with    *)
(* the speed factor 100, the configured fan speed and the steady nozzle    *)
(* temperature as the last values set ahead of the postamble.              *)
C17_UndoneFromThreeLayers ==
    (pc = "done" /\ total_steps(slicing_params, kernel) >= 3) =>
        FirstLayerUndone

C17_Witness ==
    /\ pc = "done"
    /\ total_steps(slicing_params, kernel) >= 3
    /\ \E n \in 1..Len(out) : out[n].op = "M220" /\ out[n].v = 50
    /\ \E n \in 1..Len(out) : out[n].op = "M106" /\ out[n].v = 0
    /\ \E n \in 1..Len(out) :
          /\ out[n].op = "M104"
          /\ out[n].v = slicing_params.first_layer_temperature
          /\ out[n].v # slicing_params.nozzle_temperature
    /\ out[Len(out)].op = "END_PRINT"

\* the direction of the infill lines written in a layer
InfillDirection(layer) ==
    LET moves == Moves(PhaseLines(layer, "infill"))
    IN  IF Len(moves) < 2 THEN "none"
        ELSE IF moves[1].x = moves[2].x /\ moves[1].y # moves[2].y THEN "y"
        ELSE IF moves[1].y = moves[2].y /\ moves[1].x # moves[2].x THEN "x"
        ELSE "skew"

WrittenLayers == { out[n].layer : n \in 1..Len(out) }

Alternates(a, b) ==
    (InfillDirection(a) # "none" /\ InfillDirection(b) # "none") =>
        { InfillDirection(a), InfillDirection(b) } = { "x", "y" }

(* C18, as stated: for every infill layer frequency f and a density above  *)
(* 0, two consecutive layers with infill, k * f and (k + 1) * f, have      *)
(* their infill at different angles, the configured one and the one 90     *)
(* degrees from it.                                                         *)
C18_AlternatesForEveryFrequency ==
    \A a \in WrittenLayers :
        (a >= 0 /\ a % slicing_params.infill_layer_freq = 0) =>
            Alternates(a, a + slicing_params.infill_layer_freq)

(* C18, amended: for every odd infill layer frequency f and a density      *)
(* above 0, two consecutive layers with infill, k * f and (k + 1) * f,     *)
(* have their infill at different angles, the configured one and the one   *)
(* 90 degrees from it.                                                      *)
C18_AlternatesForOddFrequency ==
    \A a \in WrittenLayers :
        (a >= 0 /\ slicing_params.infill_layer_freq % 2 = 1
                /\ a % slicing_params.infill_layer_freq = 0) =>
            Alternates(a, a + slicing_params.infill_layer_freq)

C18_Witness ==
    /\ slicing_params.infill_layer_freq = 3
    /\ slicing_params.infill_density > 0
    /\ InfillDirection(0) = "y"
    /\ InfillDirection(3) = "x"

====
